---- MODULE Spec2Model ----
(***************************************************************************)
(* Model of src/db/prod/convert.py: the TSV -> SQL INSERT converter.       *)
(*                                                                         *)
(* Text is a sequence of tokens.  A token is one character ("'", " ",      *)
(* ",", "(", ...) or an atomic run of characters that holds no quote, no   *)
(* whitespace and no separator ("111", "CURRENT_TIMESTAMP", the admin id). *)
(* String operations act token by token, as the Python ones act character  *)
(* by character.                                                           *)
(*                                                                         *)
(* The input file is a sequence of physical lines, each already split at   *)
(* the tabs by csv.reader: a line is its list of cells, a blank line is    *)
(* the empty list.  Cells hold no tab, newline or double quote.            *)
(*                                                                         *)
(* Spec is the run in which nothing raises.  SpecIO adds the exceptions:   *)
(* each operation on a file may raise, and so may the loop body.  An       *)
(* exception is of class Exception (the handlers catch no other), and      *)
(* print itself is taken not to raise.  SpecEscape applies                 *)
(* escape_sql_string to one argument.                                      *)
(***************************************************************************)
EXTENDS Integers, Sequences, FiniteSets, TLC

\* ------------------------------------------------------------------ bounds
\* Most data lines after the header line in an input file.
MaxRows == 3
\* Longest string given to escape_sql_string in SpecEscape.
MaxLen == 4

\* ------------------------------------------------------- program constants
ADMIN_ID == "356253258613915663"
GROUP_ID == "1392882468704489552"

\* The text of the first output.write: the fixed column list (one token).
INSERT_HEADER ==
    <<"INSERT INTO profiles (\n    discord_id,\n    vrchat_id,\n    vrchat_name,\n    added_at,\n    updated_at,\n    created_by,\n    updated_by,\n    is_verified,\n    verification_id,\n    verified_at,\n    verified_from,\n    verified_by\n) VALUES\n">>

\* The four columns the converter looks up by name.
REQUIRED == <<"discord_id", "vrchat_id", "vrchat_name", "added_at">>

\* ------------------------------------------------------------ Python values
\* A value that may be None: row.get() gives None for a column the header
\* lacks, and DictReader fills a short row with restval None.
None == [none |-> TRUE, s |-> <<>>]

Str(s) == [none |-> FALSE, s |-> s]

\* str.strip(): the characters it removes.
Whitespace == {" "}

RECURSIVE lstrip(_)
lstrip(s) == IF s # <<>> /\ Head(s) \in Whitespace THEN lstrip(Tail(s)) ELSE s

RECURSIVE rstrip(_)
rstrip(s) ==
    IF s # <<>> /\ s[Len(s)] \in Whitespace
    THEN rstrip(SubSeq(s, 1, Len(s) - 1))
    ELSE s

strip(s) == rstrip(lstrip(s))

\* (v or ''): None and the empty string both give ''.
or_empty(v) == IF v.none \/ v.s = <<>> THEN <<>> ELSE v.s

\* dict.get(key): None when the key is absent.
get(d, key) == IF key \in DOMAIN d THEN d[key] ELSE None

\* str.replace("'", "''"): every quote is doubled.
RECURSIVE replace_quotes(_)
replace_quotes(s) ==
    IF s = <<>> THEN <<>>
    ELSE (IF Head(s) = "'" THEN <<"'", "'">> ELSE <<Head(s)>>)
         \o replace_quotes(Tail(s))

\* escape_sql_string with the quotes left as they are (no doubling).
escape_no_doubling(value) ==
    IF value.none \/ value.s = <<>>
    THEN <<"NULL">>
    ELSE <<"'">> \o value.s \o <<"'">>

escape_sql_string(value) ==
    IF value.none \/ value.s = <<>>
    THEN <<"NULL">>
    ELSE <<"'">> \o replace_quotes(value.s) \o <<"'">>

\* The f-string of line 61 with created_by taken from vrchat_id.
values_row_wrong_creator(discord_id, vrchat_id, vrchat_name, added_at) ==
    <<"(">> \o escape_sql_string(Str(discord_id))
    \o <<",", " ">> \o escape_sql_string(Str(vrchat_id))
    \o <<",", " ">> \o escape_sql_string(Str(vrchat_name))
    \o <<",", " ">> \o escape_sql_string(Str(added_at))
    \o <<",", " ", "CURRENT_TIMESTAMP">>
    \o <<",", " ">> \o escape_sql_string(Str(vrchat_id))
    \o <<",", " ">> \o escape_sql_string(Str(<<ADMIN_ID>>))
    \o <<",", " ", "TRUE">>
    \o <<",", " ", "1">>
    \o <<",", " ">> \o escape_sql_string(Str(added_at))
    \o <<",", " ">> \o escape_sql_string(Str(<<GROUP_ID>>))
    \o <<",", " ">> \o escape_sql_string(Str(<<ADMIN_ID>>))
    \o <<")">>

\* The f-string of line 61: one parenthesised tuple of twelve fields.
values_row(discord_id, vrchat_id, vrchat_name, added_at) ==
    <<"(">> \o escape_sql_string(Str(discord_id))
    \o <<",", " ">> \o escape_sql_string(Str(vrchat_id))
    \o <<",", " ">> \o escape_sql_string(Str(vrchat_name))
    \o <<",", " ">> \o escape_sql_string(Str(added_at))
    \o <<",", " ", "CURRENT_TIMESTAMP">>
    \o <<",", " ">> \o escape_sql_string(Str(discord_id))
    \o <<",", " ">> \o escape_sql_string(Str(<<ADMIN_ID>>))
    \o <<",", " ", "TRUE">>
    \o <<",", " ", "1">>
    \o <<",", " ">> \o escape_sql_string(Str(added_at))
    \o <<",", " ">> \o escape_sql_string(Str(<<GROUP_ID>>))
    \o <<",", " ">> \o escape_sql_string(Str(<<ADMIN_ID>>))
    \o <<")">>

\* all([discord_id, vrchat_id, vrchat_name, added_at]): a str is true when
\* it is not empty.
all_required(discord_id, vrchat_id, vrchat_name, added_at) ==
    /\ discord_id # <<>>
    /\ vrchat_id # <<>>
    /\ vrchat_name # <<>>
    /\ added_at # <<>>

\* ',\n'.join(rows) with the newline left out.
RECURSIVE join_rows_no_newline(_)
join_rows_no_newline(rows) ==
    IF rows = <<>> THEN <<>>
    ELSE IF Len(rows) = 1 THEN Head(rows)
    ELSE Head(rows) \o <<",">> \o join_rows_no_newline(Tail(rows))

\* ',\n'.join(rows)
RECURSIVE join_rows(_)
join_rows(rows) ==
    IF rows = <<>> THEN <<>>
    ELSE IF Len(rows) = 1 THEN Head(rows)
    ELSE Head(rows) \o <<",", "\n">> \o join_rows(Tail(rows))

\* --------------------------------------------------------- csv.DictReader
\* dict(zip(fieldnames, cells)), the columns the row is too short for set
\* to restval (None).  Cells beyond the header go under the key None, which
\* no string key can name: they are left out.
DictRow(names, cells) ==
    [k \in {names[j] : j \in 1..Len(names)} |->
        LET j == CHOOSE i \in 1..Len(names) : names[i] = k
        IN  IF j <= Len(cells) THEN Str(cells[j]) ELSE None]

\* The index of the first non-blank line after line p, 0 when there is none:
\* DictReader.__next__ does not return blank rows.
NextNonBlank(lines, p) ==
    LET later == {k \in (p + 1)..Len(lines) : lines[k] # <<>>}
    IN  IF later = {} THEN 0
        ELSE CHOOSE k \in later : \A m \in later : k <= m

\* ------------------------------------------------------------- input space
H_CANONICAL == <<"discord_id", "vrchat_id", "vrchat_name", "added_at">>
H_REORDERED == <<"added_at", "vrchat_name", "vrchat_id", "discord_id", "note">>
H_NO_ADDED_AT == <<"discord_id", "vrchat_id", "vrchat_name">>

\* Header lines: the documented one, a reordered one with an extra column,
\* one that lacks a required column, and a blank first line.
Headers == {H_CANONICAL, H_REORDERED, H_NO_ADDED_AT, <<>>}

\* Data lines: a blank line, two rows with every cell filled (quotes and
\* surrounding whitespace in them; the second with a fifth cell), a row with
\* an empty cell, a row with a whitespace-only cell, and a short row.
BLANK_LINE == <<>>
ROW_ALICE == << <<"111">>, <<"usr_aaa">>, <<"Al", "'", "ice">>, <<"2024-01-01">> >>
ROW_BOB ==
    << <<" ", "222">>, <<"usr_bbb", " ">>, <<" ", "'", "Bob", "'", "'", " ">>,
       <<"2024-01-02">>, <<"x">> >>
ROW_EMPTY_FIRST == << <<>>, <<"usr_ccc">>, <<"Carol">>, <<"2024-01-03">> >>
ROW_SPACE_THIRD == << <<"444">>, <<"usr_ddd">>, <<" ", " ">>, <<"2024-01-04">> >>
ROW_SHORT == << <<"555">>, <<"usr_eee">>, <<"Eve">> >>

Lines ==
    {BLANK_LINE, ROW_ALICE, ROW_BOB, ROW_EMPTY_FIRST, ROW_SPACE_THIRD, ROW_SHORT}

\* Every input file: the empty file, or a header line and up to MaxRows lines.
Files ==
    {<<>>} \cup
    {<<h>> \o rows : h \in Headers,
                     rows \in UNION {[1..k -> Lines] : k \in 0..MaxRows}}

\* The output file before the run: absent, or left by an earlier run.
Absent == [exists |-> FALSE, content |-> <<>>]
Stale == [exists |-> TRUE, content |-> <<"-- earlier run">>]

\* Inputs of escape_sql_string: None and every string of at most MaxLen
\* characters over a letter, the quote and the space.
Alphabet == {"a", "'", " "}
EscapeInputs ==
    {None} \cup {Str(s) : s \in UNION {[1..k -> Alphabet] : k \in 0..MaxLen}}

\* ---------------------------------------------------------------- state
VARIABLES
    file,         \* the input file: its physical lines
    outFile,      \* the output file in the file system
    pc,           \* position of convert_tsv_to_sql
    inHandle,     \* the input file object: "unopened", "open", "closed"
    outHandle,    \* the output file object: "unopened", "open", "closed"
    fieldnames,   \* DictReader.fieldnames
    line_num,     \* reader.line_num: physical lines read so far
    row_num,      \* enumerate(reader, start=2): the last number given out
    row,          \* the loop variable: the current row's dict
    values_rows,  \* the tuples collected so far
    log,          \* what was printed
    exc,          \* the exception in flight: "none" or its class
    value,        \* SpecEscape: the argument of escape_sql_string
    literal       \* SpecEscape: its result

vars ==
    <<file, outFile, pc, inHandle, outHandle, fieldnames, line_num, row_num,
      row, values_rows, log, exc, value, literal>>

\* A printed line: its kind, the number it names (a row number, or the
\* record count of the summary) and, for "Error: {str(e)}", the failed
\* operation that the exception's text describes.
Msg(kind, n) == [kind |-> kind, n |-> n, text |-> ""]

ErrorMsg(kind, text) == [kind |-> kind, n |-> 0, text |-> text]

\* An exception in flight: its class and the operation that raised it.
NoExc == [class |-> "none", at |-> ""]

Raised(class, at) == [class |-> class, at |-> at]

Init ==
    /\ file \in Files
    /\ outFile \in {Absent, Stale}
    /\ pc = "start"
    /\ inHandle = "unopened"
    /\ outHandle = "unopened"
    /\ fieldnames = <<>>
    /\ line_num = 0
    /\ row_num = 1
    /\ row = [k \in {} |-> None]
    /\ values_rows = <<>>
    /\ log = <<>>
    /\ exc = NoExc
    /\ value = None
    /\ literal = <<>>

\* ------------------------------------------------------ the normal path
\* Line 44: open(INPUT_FILE, 'r').
OpenInput ==
    /\ pc = "start"
    /\ inHandle' = "open"
    /\ pc' = "iter"
    /\ UNCHANGED <<file, outFile, outHandle, fieldnames, line_num, row_num,
                   row, values_rows, log, exc, value, literal>>

\* The header as the first next() reads it: the first line, when there is one.
HeaderRead == IF line_num = 0 /\ Len(file) >= 1 THEN file[1] ELSE fieldnames

\* Lines consumed once the header is read.
AfterHeader == IF line_num = 0 /\ Len(file) >= 1 THEN 1 ELSE line_num

\* Line 47, a row: the reader yields the next non-blank line as a dict and
\* enumerate numbers it.
NextRow ==
    /\ pc = "iter"
    /\ NextNonBlank(file, AfterHeader) # 0
    /\ fieldnames' = HeaderRead
    /\ line_num' = NextNonBlank(file, AfterHeader)
    /\ row' = DictRow(HeaderRead, file[NextNonBlank(file, AfterHeader)])
    /\ row_num' = row_num + 1
    /\ pc' = "body"
    /\ UNCHANGED <<file, outFile, inHandle, outHandle, values_rows, log, exc,
                   value, literal>>

\* Line 47 with the file left open when the loop ends (no with block).
EndOfInputLeftOpen ==
    /\ pc = "iter"
    /\ NextNonBlank(file, AfterHeader) = 0
    /\ fieldnames' = HeaderRead
    /\ line_num' = Len(file)
    /\ pc' = "decide"
    /\ UNCHANGED <<file, outFile, inHandle, outHandle, row_num, row,
                   values_rows, log, exc, value, literal>>

\* Line 47, StopIteration: the loop ends and the with block of line 44
\* closes the input.
EndOfInput ==
    /\ pc = "iter"
    /\ NextNonBlank(file, AfterHeader) = 0
    /\ fieldnames' = HeaderRead
    /\ line_num' = Len(file)
    /\ inHandle' = "closed"
    /\ pc' = "decide"
    /\ UNCHANGED <<file, outFile, outHandle, row_num, row, values_rows, log,
                   exc, value, literal>>

\* Lines 50-53 with the strip() left out.
FieldNotStripped(name) == or_empty(get(row, name))

\* Lines 50-53: the four fields, each (row.get(name) or '').strip().
Field(name) == strip(or_empty(get(row, name)))

\* Lines 50-63: one pass of the loop body that raises nothing.
ProcessRow ==
    /\ pc = "body"
    /\ IF all_required(Field("discord_id"), Field("vrchat_id"),
                       Field("vrchat_name"), Field("added_at"))
       THEN /\ values_rows' =
                   Append(values_rows,
                          values_row(Field("discord_id"), Field("vrchat_id"),
                                     Field("vrchat_name"), Field("added_at")))
            /\ log' = log
       ELSE /\ log' = Append(log, Msg("warning", row_num))
            /\ values_rows' = values_rows
    /\ pc' = "iter"
    /\ UNCHANGED <<file, outFile, inHandle, outHandle, fieldnames, line_num,
                   row_num, row, exc, value, literal>>

\* Lines 70-71 with the test of line 70 left out.
OpenOutputAlways ==
    /\ pc = "decide"
    /\ outHandle' = "open"
    /\ outFile' = [exists |-> TRUE, content |-> <<>>]
    /\ pc' = "write_header"
    /\ UNCHANGED <<file, inHandle, fieldnames, line_num, row_num, row,
                   values_rows, log, exc, value, literal>>

\* Lines 70-71: there are tuples, open(OUTPUT_FILE, 'w') creates or
\* truncates the file.
OpenOutput ==
    /\ pc = "decide"
    /\ values_rows # <<>>
    /\ outHandle' = "open"
    /\ outFile' = [exists |-> TRUE, content |-> <<>>]
    /\ pc' = "write_header"
    /\ UNCHANGED <<file, inHandle, fieldnames, line_num, row_num, row,
                   values_rows, log, exc, value, literal>>

\* Lines 92-93: no tuple was collected.
NoValidRecords ==
    /\ pc = "decide"
    /\ values_rows = <<>>
    /\ log' = Append(log, Msg("no_valid", 0))
    /\ pc' = "done"
    /\ UNCHANGED <<file, outFile, inHandle, outHandle, fieldnames, line_num,
                   row_num, row, values_rows, exc, value, literal>>

\* Lines 72-86: output.write of the column list.
WriteHeader ==
    /\ pc = "write_header"
    /\ outFile' = [outFile EXCEPT !.content = @ \o INSERT_HEADER]
    /\ pc' = "write_rows"
    /\ UNCHANGED <<file, inHandle, outHandle, fieldnames, line_num, row_num,
                   row, values_rows, log, exc, value, literal>>

\* Line 87: output.write(',\n'.join(values_rows)).
WriteRows ==
    /\ pc = "write_rows"
    /\ outFile' = [outFile EXCEPT !.content = @ \o join_rows(values_rows)]
    /\ pc' = "write_semi"
    /\ UNCHANGED <<file, inHandle, outHandle, fieldnames, line_num, row_num,
                   row, values_rows, log, exc, value, literal>>

\* Line 88: output.write(';').
WriteTerminator ==
    /\ pc = "write_semi"
    /\ outFile' = [outFile EXCEPT !.content = @ \o <<";">>]
    /\ pc' = "close"
    /\ UNCHANGED <<file, inHandle, outHandle, fieldnames, line_num, row_num,
                   row, values_rows, log, exc, value, literal>>

\* The end of the with block of line 71: the output is closed.
CloseOutput ==
    /\ pc = "close"
    /\ outHandle' = "closed"
    /\ pc' = "report"
    /\ UNCHANGED <<file, outFile, inHandle, fieldnames, line_num, row_num,
                   row, values_rows, log, exc, value, literal>>

\* Lines 90-91: the two lines of the success summary.
ReportSuccess ==
    /\ pc = "report"
    /\ log' = log \o <<Msg("success", Len(values_rows)), Msg("saved", 0)>>
    /\ pc' = "done"
    /\ UNCHANGED <<file, outFile, inHandle, outHandle, fieldnames, line_num,
                   row_num, row, values_rows, exc, value, literal>>

Next ==
    \/ OpenInput
    \/ NextRow
    \/ EndOfInput
    \/ ProcessRow
    \/ OpenOutput
    \/ NoValidRecords
    \/ WriteHeader
    \/ WriteRows
    \/ WriteTerminator
    \/ CloseOutput
    \/ ReportSuccess

\* A run in which no operation raises.
Spec == Init /\ [][Next]_vars

\* --------------------------------------------------- the exception paths
\* Line 44 raises: the file is missing (FileNotFoundError) or cannot be
\* opened (another OSError).  No file object exists.
RaiseOpenInput ==
    /\ pc = "start"
    /\ \E class \in {"FileNotFoundError", "Exception"} :
           exc' = Raised(class, "open_input")
    /\ pc' = "except"
    /\ UNCHANGED <<file, outFile, inHandle, outHandle, fieldnames, line_num,
                   row_num, row, values_rows, log, value, literal>>

\* Line 47 raises while the reader fetches a row (csv.Error, a decoding
\* error, an OSError): that is outside the try of line 48, so the with block
\* of line 44 closes the input and the exception reaches line 97.
RaiseRead ==
    /\ pc = "iter"
    /\ exc' = Raised("Exception", "read")
    /\ inHandle' = "closed"
    /\ pc' = "except"
    /\ UNCHANGED <<file, outFile, outHandle, fieldnames, line_num, row_num,
                   row, values_rows, log, value, literal>>

\* A statement of lines 50-63 raises before the row is appended.
RaiseRow ==
    /\ pc = "body"
    /\ exc' = Raised("Exception", "row")
    /\ pc' = "row_except"
    /\ UNCHANGED <<file, outFile, inHandle, outHandle, fieldnames, line_num,
                   row_num, row, values_rows, log, value, literal>>

\* Lines 65-67 without the inner try: the exception leaves the loop, the
\* with block closes the input and line 98 prints it.
RowExceptAborts ==
    /\ pc = "row_except"
    /\ log' = Append(log, ErrorMsg("error", exc.at))
    /\ exc' = NoExc
    /\ inHandle' = "closed"
    /\ pc' = "done"
    /\ UNCHANGED <<file, outFile, outHandle, fieldnames, line_num, row_num,
                   row, values_rows, value, literal>>

\* Lines 65-67: except Exception: print the row number, continue.
RowExcept ==
    /\ pc = "row_except"
    /\ log' = Append(log, Msg("row_error", row_num))
    /\ exc' = NoExc
    /\ pc' = "iter"
    /\ UNCHANGED <<file, outFile, inHandle, outHandle, fieldnames, line_num,
                   row_num, row, values_rows, value, literal>>

\* Line 71 raises: the output cannot be opened.  The file is as it was.
RaiseOpenOutput ==
    /\ pc = "decide"
    /\ values_rows # <<>>
    /\ \E class \in {"FileNotFoundError", "Exception"} :
           exc' = Raised(class, "open_output")
    /\ pc' = "except"
    /\ UNCHANGED <<file, outFile, inHandle, outHandle, fieldnames, line_num,
                   row_num, row, values_rows, log, value, literal>>

\* One of the writes of lines 72-88 raises: nothing more is written, and
\* the with block of line 71 closes the output.
RaiseWrite ==
    /\ pc \in {"write_header", "write_rows", "write_semi"}
    /\ exc' = Raised("Exception", "write")
    /\ outHandle' = "closed"
    /\ pc' = "except"
    /\ UNCHANGED <<file, outFile, inHandle, fieldnames, line_num, row_num,
                   row, values_rows, log, value, literal>>

\* The close at the end of the with block of line 71 raises (the flush
\* fails): the file object is closed all the same.
RaiseClose ==
    /\ pc = "close"
    /\ exc' = Raised("Exception", "close")
    /\ outHandle' = "closed"
    /\ pc' = "except"
    /\ UNCHANGED <<file, outFile, inHandle, fieldnames, line_num, row_num,
                   row, values_rows, log, value, literal>>

\* Lines 95-98 followed by the write block, as if that block stood after
\* the try statement instead of inside it.
ExceptThenWrite ==
    /\ pc = "except"
    /\ log' = Append(log, IF exc.class = "FileNotFoundError"
                          THEN ErrorMsg("not_found", exc.at)
                          ELSE ErrorMsg("error", exc.at))
    /\ exc' = NoExc
    /\ pc' = "decide"
    /\ UNCHANGED <<file, outFile, inHandle, outHandle, fieldnames, line_num,
                   row_num, row, values_rows, value, literal>>

\* Lines 95-98: the two outer handlers print and the function returns.
Except ==
    /\ pc = "except"
    /\ log' = Append(log, IF exc.class = "FileNotFoundError"
                          THEN ErrorMsg("not_found", exc.at)
                          ELSE ErrorMsg("error", exc.at))
    /\ exc' = NoExc
    /\ pc' = "done"
    /\ UNCHANGED <<file, outFile, inHandle, outHandle, fieldnames, line_num,
                   row_num, row, values_rows, value, literal>>

NextIO ==
    \/ Next
    \/ RaiseOpenInput
    \/ RaiseRead
    \/ RaiseRow
    \/ RowExcept
    \/ RaiseOpenOutput
    \/ RaiseWrite
    \/ RaiseClose
    \/ Except

\* A run in which any operation on a file, and any row, may raise.
SpecIO == Init /\ [][NextIO]_vars

\* ------------------------------------------- escape_sql_string on its own
InitEscape ==
    /\ value \in EscapeInputs
    /\ literal = <<>>
    /\ pc = "escape"
    /\ file = <<>>
    /\ outFile = Absent
    /\ inHandle = "unopened"
    /\ outHandle = "unopened"
    /\ fieldnames = <<>>
    /\ line_num = 0
    /\ row_num = 1
    /\ row = [k \in {} |-> None]
    /\ values_rows = <<>>
    /\ log = <<>>
    /\ exc = NoExc

\* Lines 32-36: one call of escape_sql_string.
Escape ==
    /\ pc = "escape"
    /\ literal' = escape_sql_string(value)
    /\ pc' = "escaped"
    /\ UNCHANGED <<file, outFile, inHandle, outHandle, fieldnames, line_num,
                   row_num, row, values_rows, log, exc, value>>

NextEscape == Escape

SpecEscape == InitEscape /\ [][NextEscape]_vars

\* ======================================================================
\* Properties.  What they need is defined from the input file itself, not
\* from the converter's own operators.

\* The header line of the input, empty when the file is empty.
TheHeader == IF Len(file) >= 1 THEN file[1] ELSE <<>>

\* The cell of a data line under the named column, empty when the header
\* lacks the column or the line is too short to reach it.
CellOf(line, name) ==
    LET cols == {j \in 1..Len(TheHeader) : TheHeader[j] = name /\ j <= Len(line)}
    IN  IF cols = {} THEN <<>> ELSE line[CHOOSE j \in cols : TRUE]

\* The text between the first and the last non-whitespace character.
TrimmedOf(s) ==
    LET idx == {i \in 1..Len(s) : s[i] \notin Whitespace}
    IN  IF idx = {} THEN <<>>
        ELSE SubSeq(s, CHOOSE i \in idx : \A j \in idx : i <= j,
                       CHOOSE i \in idx : \A j \in idx : j <= i)

\* A data line has its four required fields non-empty after trimming.
RowIsValid(line) ==
    \A i \in 1..Len(REQUIRED) :
        \E k \in 1..Len(CellOf(line, REQUIRED[i])) :
            CellOf(line, REQUIRED[i])[k] \notin Whitespace

\* The physical line numbers of the data lines DictReader yields as rows.
DataLines == {k \in 2..Len(file) : file[k] # <<>>}

ValidLines == {k \in DataLines : RowIsValid(file[k])}

\* A set of line numbers in increasing order.
RECURSIVE Ascending(_)
Ascending(S) ==
    IF S = {} THEN <<>>
    ELSE LET m == CHOOSE x \in S : \A y \in S : x <= y
         IN  <<m>> \o Ascending(S \ {m})

\* A field of an SQL tuple: a quoted literal (its text unescaped) or a raw
\* token.
Quoted(s) == [quoted |-> TRUE, text |-> s]
Raw(s) == [quoted |-> FALSE, text |-> s]

\* Standard SQL reading of the inside of a tuple: fields are separated by
\* commas outside literals, a literal runs from a quote to the next quote
\* that is not doubled, and '' inside a literal is one quote.
RECURSIVE ScanFields(_, _, _, _, _)
ScanFields(t, i, inLiteral, cur, fields) ==
    IF i > Len(t) THEN Append(fields, cur)
    ELSE IF inLiteral
    THEN IF t[i] = "'"
         THEN IF i < Len(t) /\ t[i + 1] = "'"
              THEN ScanFields(t, i + 2, TRUE,
                              [cur EXCEPT !.text = Append(@, "'")], fields)
              ELSE ScanFields(t, i + 1, FALSE, cur, fields)
         ELSE ScanFields(t, i + 1, TRUE,
                         [cur EXCEPT !.text = Append(@, t[i])], fields)
    ELSE IF t[i] = "'"
         THEN ScanFields(t, i + 1, TRUE, Quoted(cur.text), fields)
         ELSE IF t[i] = ","
         THEN ScanFields(t, i + 1, FALSE, Raw(<<>>), Append(fields, cur))
         ELSE IF t[i] = " "
         THEN ScanFields(t, i + 1, FALSE, cur, fields)
         ELSE ScanFields(t, i + 1, FALSE,
                         [cur EXCEPT !.text = Append(@, t[i])], fields)

\* The fields of a parenthesised tuple, <<>> when the text is not one.
ParseTuple(t) ==
    IF Len(t) >= 2 /\ t[1] = "(" /\ t[Len(t)] = ")"
    THEN ScanFields(SubSeq(t, 2, Len(t) - 1), 1, FALSE, Raw(<<>>), <<>>)
    ELSE <<>>

\* The twelve fields the documented mapping gives for a data line.
ExpectedFields(line) ==
    LET d == TrimmedOf(CellOf(line, "discord_id"))
        v == TrimmedOf(CellOf(line, "vrchat_id"))
        n == TrimmedOf(CellOf(line, "vrchat_name"))
        a == TrimmedOf(CellOf(line, "added_at"))
    IN  <<Quoted(d), Quoted(v), Quoted(n), Quoted(a),
          Raw(<<"CURRENT_TIMESTAMP">>), Quoted(d), Quoted(<<ADMIN_ID>>),
          Raw(<<"TRUE">>), Raw(<<"1">>), Quoted(a), Quoted(<<GROUP_ID>>),
          Quoted(<<ADMIN_ID>>)>>

\* The pieces of a text between its newlines.
SplitLines(t) ==
    LET nl == Ascending({i \in 1..Len(t) : t[i] = "\n"})
        from(i) == IF i = 1 THEN 1 ELSE nl[i - 1] + 1
        to(i) == IF i = Len(nl) + 1 THEN Len(t) ELSE nl[i] - 1
    IN  [i \in 1..(Len(nl) + 1) |-> SubSeq(t, from(i), to(i))]

Printed(kind) == \E i \in 1..Len(log) : log[i].kind = kind

Fatal == Printed("error") \/ Printed("not_found")

\* ----------------------------------------------------------------- C1
\* C1: a pass of the loop body over a row whose four required fields are
\* non-empty after trimming appends exactly one tuple, and read as SQL that
\* tuple has twelve fields: discord_id, vrchat_id, vrchat_name, added_at
\* (trimmed, as literals), CURRENT_TIMESTAMP, discord_id, the admin id,
\* TRUE, 1, added_at, the group id, the admin id.
C1_ValidRowEmitsTuple ==
    [][(pc = "body" /\ RowIsValid(file[line_num]))
       => /\ Len(values_rows') = Len(values_rows) + 1
          /\ SubSeq(values_rows', 1, Len(values_rows)) = values_rows
          /\ ParseTuple(values_rows'[Len(values_rows')])
                = ExpectedFields(file[line_num])
          /\ log' = log]_vars

\* A row with quotes and surrounding whitespace, under the reordered
\* header, has just been appended after an earlier tuple.
C1_Witness ==
    /\ pc = "iter"
    /\ line_num = 3
    /\ TheHeader = H_REORDERED
    /\ file[3] = ROW_BOB
    /\ Len(values_rows) = 2

\* ----------------------------------------------------------------- C2
\* C2: a row lacking a required field (column not in the header, row too
\* short, cell empty or whitespace-only) adds no tuple, and the count the
\* summary reports is the number of rows that lack none.
C2_InvalidRowSkipped ==
    [][/\ (pc = "body" /\ ~RowIsValid(file[line_num]))
            => values_rows' = values_rows
       /\ \A i \in 1..Len(log') :
            log'[i].kind = "success" => log'[i].n = Cardinality(ValidLines)]_vars

\* A run that reported its count after skipping a short row and a row with
\* a whitespace-only cell.
C2_Witness ==
    /\ pc = "done"
    /\ Printed("success")
    /\ Len(file) = 4
    /\ \E k \in 2..4 : file[k] = ROW_SHORT
    /\ \E k \in 2..4 : file[k] = ROW_SPACE_THIRD

\* ----------------------------------------------------------------- C3
\* Standard SQL unescaping of a literal's inside: '' becomes '.
RECURSIVE Unescape(_)
Unescape(s) ==
    IF s = <<>> THEN <<>>
    ELSE IF Len(s) >= 2 /\ s[1] = "'" /\ s[2] = "'"
    THEN <<"'">> \o Unescape(SubSeq(s, 3, Len(s)))
    ELSE <<Head(s)>> \o Unescape(Tail(s))

\* C3: for a non-empty string, the result of escape_sql_string is enclosed
\* in quotes, and its inside with every '' replaced by ' is the string.
C3_EscapeRoundTrip ==
    (pc = "escaped" /\ ~value.none /\ value.s # <<>>)
    => /\ Len(literal) >= 2
       /\ literal[1] = "'"
       /\ literal[Len(literal)] = "'"
       /\ Unescape(SubSeq(literal, 2, Len(literal) - 1)) = value.s

\* A string with an isolated quote and two adjacent ones has been escaped.
C3_Witness ==
    /\ pc = "escaped"
    /\ ~value.none
    /\ value.s = <<"'", "a", "'", "'">>

\* ----------------------------------------------------------------- C4
\* The output split as the statement is laid out: the column list, the
\* lines of the tuples, each but the last ending in a comma, and the
\* final semicolon.
OutputBody ==
    SubSeq(outFile.content, 2, Len(outFile.content) - 1)

OutputTuples ==
    LET pieces == SplitLines(OutputBody)
    IN  [i \in 1..Len(pieces) |->
            IF i < Len(pieces) /\ pieces[i] # <<>>
               /\ pieces[i][Len(pieces[i])] = ","
            THEN SubSeq(pieces[i], 1, Len(pieces[i]) - 1)
            ELSE pieces[i]]

\* C4: when a run with at least one valid row has ended, the output file
\* is the column list, then one tuple per valid row and no other, in input
\* order, separated by ",\n", then one ";", and the count reported is the
\* number of tuples written.
C4_OutputStatement ==
    (pc = "done" /\ ValidLines # {})
    => LET valid == Ascending(ValidLines)
           pieces == SplitLines(OutputBody)
       IN  /\ outFile.exists
           /\ Len(outFile.content) >= 3
           /\ <<outFile.content[1]>> = INSERT_HEADER
           /\ outFile.content[Len(outFile.content)] = ";"
           /\ Len(pieces) = Len(valid)
           /\ \A i \in 1..(Len(pieces) - 1) :
                 pieces[i] # <<>> /\ pieces[i][Len(pieces[i])] = ","
           /\ \A i \in 1..Len(valid) :
                 ParseTuple(OutputTuples[i]) = ExpectedFields(file[valid[i]])
           /\ Len(log) >= 2
           /\ log[Len(log) - 1] = Msg("success", Len(OutputTuples))

\* A run has ended on a file with a skipped row between two valid rows.
C4_Witness ==
    /\ pc = "done"
    /\ file = <<H_CANONICAL, ROW_BOB, ROW_EMPTY_FIRST, ROW_ALICE>>
    /\ outFile.exists
    /\ Printed("success")

\* ----------------------------------------------------------------- C5
\* C5: with no valid row in the input the output is never opened nor
\* written, and the run ends having printed the no-valid-records notice
\* and no success summary.
C5_NoValidRowsNoOutput ==
    (ValidLines = {})
    => /\ outHandle = "unopened"
       /\ outFile \in {Absent, Stale}
       /\ ~Printed("success")
       /\ pc = "done" => (log # <<>> /\ log[Len(log)] = Msg("no_valid", 0))

\* A run over a file that holds its header and nothing else has ended.
C5_Witness ==
    /\ pc = "done"
    /\ file = <<H_CANONICAL>>
    /\ Printed("no_valid")

\* ----------------------------------------------------------------- C6
\* C6: when a run has ended on a fatal error, the output file is as it was
\* before the run: absent if it was absent, and neither truncated nor
\* partly written.
C6_FatalLeavesOutputUntouched ==
    (pc = "done" /\ Fatal) => outFile \in {Absent, Stale}

\* ----------------------------------------------------------------- C7
\* The rows (by the number enumerate gave them) whose processing raised,
\* as a log tells.
RaisedRows(lg) ==
    {lg[i].n : i \in {j \in 1..Len(lg) : lg[j].kind = "row_error"}}

\* The number enumerate gives the row at physical line k.
NumberOf(k) == 1 + Cardinality({m \in DataLines : m <= k})

\* The valid rows whose processing did not raise.
KeptLines(lg) == {k \in ValidLines : NumberOf(k) \notin RaisedRows(lg)}

FatalIn(lg) == \E i \in 1..Len(lg) : lg[i].kind \in {"error", "not_found"}

\* A run ended having read every line and written the tuples of exactly
\* the valid rows that did not raise, in input order.
EndedWell(lg, rows, out, ln) ==
    LET kept == Ascending(KeptLines(lg))
    IN  /\ ln = Len(file)
        /\ Len(rows) = Len(kept)
        /\ \A i \in 1..Len(rows) :
             ParseTuple(rows[i]) = ExpectedFields(file[kept[i]])
        /\ kept # <<>>
             => /\ out.content = INSERT_HEADER \o join_rows(rows) \o <<";">>
                /\ \E i \in 1..Len(lg) : lg[i].kind = "success"
        /\ kept = <<>> => out \in {Absent, Stale}

\* C7: an exception raised in the loop body is handled by printing the
\* row's number and going on to the next row with the input still open
\* and the collected tuples kept; it is never printed by the run-level
\* handlers; and a run that ends without a fatal error has read every
\* line and has written the tuples of exactly the valid rows that did not
\* raise, in input order.
C7_RowExceptionSkipsRowOnly ==
    [][/\ (pc = "row_except")
            => /\ pc' = "iter"
               /\ log' = Append(log, Msg("row_error", row_num))
               /\ values_rows' = values_rows
               /\ inHandle = "open" /\ inHandle' = "open"
               /\ line_num' = line_num
       /\ \A i \in 1..Len(log') :
            log'[i].kind \in {"error", "not_found"} => log'[i].text # "row"
       /\ (pc' = "done" /\ ~FatalIn(log'))
            => EndedWell(log', values_rows', outFile', line_num')]_vars

\* A run has written its output after the first of three rows raised and
\* the two rows after it were collected.
C7_Witness ==
    /\ pc = "done"
    /\ Printed("success")
    /\ log[1] = Msg("row_error", 2)
    /\ Len(values_rows) = 2
    /\ Len(file) = 4

\* ----------------------------------------------------------------- C8
\* C8: a warning or a per-row error names the line number, in the input
\* file, of the row it is about.
C8_RowNumberIsLineNumber ==
    [][(Len(log') = Len(log) + 1
        /\ log'[Len(log')].kind \in {"warning", "row_error"})
       => log'[Len(log')].n = line_num]_vars

\* ----------------------------------------------------------------- C9
\* Opening the input or reading a row has raised.
ReadFailure ==
    \/ exc.at \in {"open_input", "read"}
    \/ \E i \in 1..Len(log) :
          /\ log[i].kind \in {"error", "not_found"}
          /\ log[i].text \in {"open_input", "read"}

\* C9: once opening the input or reading a row has raised, the output is
\* never opened nor written, whatever was collected, no success summary is
\* printed, and the run ends on the error diagnostic.
C9_ReadFailurePreventsWrite ==
    ReadFailure
    => /\ outHandle = "unopened"
       /\ outFile \in {Absent, Stale}
       /\ ~Printed("success")
       /\ pc \in {"except", "done"}
       /\ pc = "done" => log[Len(log)].kind \in {"error", "not_found"}

\* A run has ended on a read error with two tuples already collected.
C9_Witness ==
    /\ pc = "done"
    /\ log # <<>>
    /\ log[Len(log)] = ErrorMsg("error", "read")
    /\ Len(values_rows) = 2

\* ---------------------------------------------------------------- C10
\* C10: the two file objects are never open together, the output is opened
\* only after the input is closed, and when the run has ended neither is
\* open.
C10_HandlesScoped ==
    /\ ~(inHandle = "open" /\ outHandle = "open")
    /\ outHandle # "unopened" => inHandle = "closed"
    /\ pc = "done" => (inHandle # "open" /\ outHandle # "open")
    /\ pc \in {"iter", "body", "row_except"} => inHandle = "open"

\* A run has ended on a write error with both files closed.
C10_Witness ==
    /\ pc = "done"
    /\ log # <<>>
    /\ log[Len(log)] = ErrorMsg("error", "write")
    /\ inHandle = "closed"
    /\ outHandle = "closed"

====
